---- MODULE Spec2Model ----
(***************************************************************************)
(* EmojiKitchen: the batch download pipeline.                              *)
(*                                                                         *)
(* Two drivers are modelled over the same per-pair task machinery:         *)
(*   "orch"  DownloadOrchestrator.download_batch (orchestrator.py), which  *)
(*           awaits download_pair for one pair after the other and opens   *)
(*           a new EmojiKitchenClient for every pair;                      *)
(*   "bulk"  BulkDownloader.download_all (Scripts/bulk_download.py), which *)
(*           opens one client and gathers process_single over windows of   *)
(*           batch_size pairs.                                             *)
(* StorageManager (storage/manager.py) is the file system both write to.   *)
(* EmojiKitchenClient (api/client.py) and the path resolver                *)
(* (storage/paths.py) are not part of the sources at hand; they are        *)
(* modelled from their specification (sections 4.1 and 4.3).               *)
(***************************************************************************)
EXTENDS Integers, Sequences, FiniteSets, TLC

\* ------------------------------------------------------------------ bounds

\* Longest input list of pairs.
MaxPairs == 2

\* Largest configured concurrency ceiling (max_concurrent).
MaxConcurrent == 2

\* Largest configured retry ceiling of the orchestrator's clients.
MaxRetries == 1

\* ------------------------------------------------------ program constants

\* max_retries the bulk downloader configures its client with.
BulkMaxRetries == 3

\* status_code of an attempt that got no HTTP response (Python's None).
NoStatus == 0

\* ------------------------------------------------------------ input sets

Emojis == {"a", "b"}

\* Ordered pairs: (a,b) and (b,a) are distinct requests.
Pairs == {<<"a", "b">>, <<"b", "a">>}

\* Response bodies the endpoint serves with a 200 (non-empty images).
Bodies == {<<1>>, <<2, 3>>}

\* What a file left by an earlier session may hold.
OldContent == <<9>>

Drivers == {"orch", "bulk"}

\* ------------------------------------------------------------- variables

VARIABLES
    driver,          \* which program runs: "orch" or "bulk"
    skip_existing,   \* DownloadOrchestrator.skip_existing
    max_concurrent,  \* the configured concurrency ceiling
    max_retries,     \* the retry ceiling of the client(s) of the run
    batch_size,      \* download_all's batch_size (window length)
    emoji_pairs,     \* the input list
    files,           \* the file system: path -> content, or NoFile
    phase,           \* "idle", "running", "returned"
    tasks,           \* per input position: the pair's handling
    stats,           \* DownloadOrchestrator.stats (DownloadStats)
    counters,        \* BulkDownloader.successes/failures/skipped/not_found
    log_successes,   \* JSONLogger.successes
    log_failures,    \* JSONLogger.failures
    failed_pairs,    \* BulkDownloader.failed_pairs
    permits,         \* client -> free permits of its semaphore
    rerun,           \* TRUE in the second run over the same input
    prev,            \* what the first run left: who succeeded, the files, the
                     \* size, and the id of the earlier logger (0 if none)
    last_saved,      \* path -> the bytes of its last save, while they stand
    session_id,      \* JSONLogger.session_id
    size,            \* the size download_batch is called with
    log_dir,         \* the log directory: session id -> the session's files
    log_disk,        \* "ok", or "faulty": writes to the log directory may fail
    entry,           \* the method called: "batch" (download_batch, download_all)
                     \* or "single" (download_single)
    returned,         \* what download_single returned: "True", "False", or
    events,          \* the lines the session's Python logger has emitted
    exit_code        \* the exit status of run_test's main, once it has returned
                     \* "None" while it has not returned

vars == <<driver, skip_existing, max_concurrent, max_retries, batch_size,
          emoji_pairs, files, phase, tasks, stats, counters, log_successes,
          log_failures, failed_pairs, permits, rerun, prev, last_saved,
          session_id, size, log_dir, log_disk, entry, returned, events,
          exit_code>>

\* The configuration of a session, fixed from its start.
config == <<driver, max_concurrent, max_retries, batch_size, emoji_pairs>>

\* The bookkeeping of the specifications, not read by the programs.
ledger == <<rerun, prev, last_saved>>

\* What a call of download_batch or download_all is made with and under.
session == <<session_id, size, log_disk>>

\* The call in progress and its return value.
api == <<entry, returned, exit_code>>

\* ------------------------------------------------------- path resolution

\* The glyphs path resolution is examined on, and their Unicode scalars: one
\* scalar, one scalar of two hex digits, and sequences of two scalars.
Glyphs == {"a", "b", "c", "d"}

Scalars(emoji) ==
    CASE emoji = "a" -> <<1>>
      [] emoji = "b" -> <<17>>
      [] emoji = "c" -> <<1, 1>>
      [] emoji = "d" -> <<17, 1>>

\* Rendered text is a sequence of characters: the hex digits 0..15 and the
\* two separators.
Hyphen == 16

Underscore == 17

\* Lowercase hex of a scalar, without padding.
RECURSIVE Hex(_)
Hex(n) == IF n < 16 THEN <<n>> ELSE Hex(n \div 16) \o <<n % 16>>

\* CodepointKey as it would be if the scalars were joined without hyphens.
RECURSIVE CodepointKey_unseparated(_)
CodepointKey_unseparated(scalars) ==
    IF Len(scalars) = 1
    THEN Hex(scalars[1])
    ELSE Hex(scalars[1]) \o CodepointKey_unseparated(Tail(scalars))

\* CodepointKey: the scalars of one emoji as hyphen-joined hex.
RECURSIVE CodepointKey(_)
CodepointKey(scalars) ==
    IF Len(scalars) = 1
    THEN Hex(scalars[1])
    ELSE Hex(scalars[1]) \o <<Hyphen>> \o CodepointKey(Tail(scalars))

\* paths.generate_full_path under format codepoint:
\* <base>/<key of emoji1>/<key of emoji1>_<key of emoji2>.png.  No size is
\* handed to it.
generate_full_path(emoji1, emoji2) ==
    <<CodepointKey(Scalars(emoji1)),
      CodepointKey(Scalars(emoji1)) \o <<Underscore>> \o CodepointKey(Scalars(emoji2))>>

\* StorageManager.get_file_path: the path is resolved from the two emojis
\* (and the manager's format) only.
get_file_path(emoji1, emoji2) == generate_full_path(emoji1, emoji2)

PathOf(pair) == get_file_path(pair[1], pair[2])

Paths == {PathOf(p) : p \in Pairs}

\* ------------------------------------------------------- storage manager

\* The absent file (no byte string holds a negative byte).
NoFile == <<-1>>

\* All proper prefixes of a byte string (what a write that fails midway
\* may leave behind).
ProperPrefixes(content) == {SubSeq(content, 1, k) : k \in 0..(Len(content) - 1)}

Contents == Bodies \cup UNION {ProperPrefixes(b) : b \in Bodies}

\* file_exists as it would be if it never found the file.
file_exists_never(fs, emoji1, emoji2) == FALSE

\* StorageManager.file_exists
file_exists(fs, emoji1, emoji2) == fs[get_file_path(emoji1, emoji2)] # NoFile

\* save as it would be if it left a file that is already there alone.
save_keep_existing(fs, emoji1, emoji2, content) ==
    IF fs[get_file_path(emoji1, emoji2)] # NoFile
    THEN fs
    ELSE [fs EXCEPT ![get_file_path(emoji1, emoji2)] = content]

\* StorageManager.save, when write_bytes succeeds: creates or overwrites.
save(fs, emoji1, emoji2, content) ==
    [fs EXCEPT ![get_file_path(emoji1, emoji2)] = content]

\* StorageManager.save, when it raises: mkdir or open failed (nothing
\* changed), or the file was opened (truncated) and the write failed midway.
save_raises(fs, emoji1, emoji2, content) ==
    {fs} \cup {[fs EXCEPT ![get_file_path(emoji1, emoji2)] = c] :
                  c \in ProperPrefixes(content)}

\* The ledger of saves: a save that returned stands until the next save or
\* delete of the same path.
note_saved(ls, emoji1, emoji2, content) ==
    [ls EXCEPT ![get_file_path(emoji1, emoji2)] = content]

note_touched(ls, emoji1, emoji2) ==
    [ls EXCEPT ![get_file_path(emoji1, emoji2)] = NoFile]

\* StorageManager.get_file_size (None is modelled as -1)
get_file_size(fs, emoji1, emoji2) ==
    IF fs[get_file_path(emoji1, emoji2)] # NoFile
    THEN Len(fs[get_file_path(emoji1, emoji2)])
    ELSE -1

\* StorageManager.delete: the file system after the call
delete(fs, emoji1, emoji2) ==
    [fs EXCEPT ![get_file_path(emoji1, emoji2)] = NoFile]

\* StorageManager.delete: the value returned
delete_returns_always(fs, emoji1, emoji2) == TRUE

delete_returns(fs, emoji1, emoji2) == fs[get_file_path(emoji1, emoji2)] # NoFile

\* ------------------------------------------------------------ fetch client
\* EmojiKitchenClient: a semaphore of max_concurrent permits held for the
\* whole of one download_image call, a pacing delay before each dispatch,
\* and the classification of the response.

\* What one request attempt can come back with: 200 with an image, 200 with
\* an empty body, 404, another 4xx, 5xx, or no response at all (transport
\* failure or timeout).
Responses ==
    {[status |-> 200, body |-> b] : b \in Bodies \cup {<<>>}}
    \cup {[status |-> s, body |-> <<>>] : s \in {400, 404, 503}}
    \cup {[status |-> NoStatus, body |-> <<>>]}

\* Retryable as it would be if every failed attempt were retried.
Retryable_any_failure(resp) == resp.status # 200

\* 5xx and transport failures are retried, nothing else is.
Retryable(resp) == resp.status = NoStatus \/ resp.status >= 500

\* download_image's return value (success, content, error, status_code) for
\* the response that ends the call.  Only "200 with a non-empty body" is a
\* success; the error message is not modelled.
Outcome(resp) ==
    [success |-> resp.status = 200 /\ resp.body # <<>>,
     content |-> IF resp.status = 200 THEN resp.body ELSE <<>>,
     status_code |-> resp.status]

\* ----------------------------------------------------------------- tasks

N == Len(emoji_pairs)

Positions == 1..N

Terminal(i) == tasks[i].pc \in {"SKIPPED", "SUCCEEDED", "FAILED"}

Started(i) == tasks[i].pc # "PENDING"

HoldsPermit(i) == tasks[i].pc \in {"delay", "inflight"}

Outstanding == {i \in Positions : tasks[i].pc = "inflight"}

NewTask ==
    [pc |-> "PENDING",     \* PENDING, waiting, delay, inflight, or terminal
     retries |-> 0,        \* retries made so far by the running download_image
     fetched |-> FALSE,    \* a request was issued for this position
     status |-> NoStatus,  \* status of the last response received
     error_type |-> "",    \* error kind of the failure, if it failed
     save_raised |-> FALSE]

ClientIds == 0..MaxPairs

\* The client whose semaphore a task's fetch goes through: download_pair
\* opens a client of its own for each pair, download_all opens one and
\* hands it to every process_single.
client_of(i) == IF driver = "orch" THEN i ELSE 0

\* semaphore_size as it would be if the window length were handed over.
semaphore_size_window == batch_size

\* The concurrency ceiling the drivers hand to EmojiKitchenClient.
semaphore_size == max_concurrent

\* The retry ceiling in force.
retry_ceiling == max_retries

\* ------------------------------------------------------------- the logger

Last(seq) == seq[Len(seq)]

\* JSONLogger.log_success: one DownloadResult appended to successes.
log_success(log, pair, status_code) ==
    Append(log, [pair |-> pair, success |-> TRUE, error_type |-> "",
                 status_code |-> status_code])

\* JSONLogger.log_failure: one DownloadResult appended to failures.
log_failure(log, pair, error_type, status_code) ==
    Append(log, [pair |-> pair, success |-> FALSE, error_type |-> error_type,
                 status_code |-> status_code])

\* The session ids a logger may get: datetime.now() to the second, so the
\* ids are the seconds at which loggers are constructed.
SessionIds == {1, 2}

\* A JSON log file: absent, a well-formed list of records ("ok"), or cut
\* short by a write that failed midway ("corrupt", json.load raises on it).
NoLogFile == [state |-> "absent", data |-> <<>>]

CorruptLogFile == [state |-> "corrupt", data |-> <<>>]

\* The summary file of a session: absent, written, or cut short.
NoBreakdown == [kind \in {} |-> 0]

NoSummary ==
    [state |-> "absent", total_attempts |-> 0, successes |-> 0, failures |-> 0,
     error_breakdown |-> NoBreakdown]

CorruptSummary ==
    [state |-> "corrupt", total_attempts |-> 0, successes |-> 0, failures |-> 0,
     error_breakdown |-> NoBreakdown]

\* The files of one session in the log directory.
NoSessionFiles ==
    [success_file |-> NoLogFile, failure_file |-> NoLogFile,
     summary_file |-> NoSummary]

\* JSONLogger._init_json_file: an empty list is written unless the file is
\* already there.
init_json_file(f) == IF f.state = "absent" THEN [state |-> "ok", data |-> <<>>] ELSE f

\* JSONLogger.__init__: the log directory after the construction of a logger
\* with the given session id.
JSONLogger(ld, sid) ==
    [ld EXCEPT ![sid].success_file = init_json_file(@),
               ![sid].failure_file = init_json_file(@)]

\* One line of the session's Python logger, as the debug file and the
\* console receive it.
NoPair == <<>>

LogLine(level, message, pair) == [level |-> level, message |-> message, pair |-> pair]

\* JSONLogger.info, JSONLogger.warning, JSONLogger.error.
info(ev, message, pair) == Append(ev, LogLine("INFO", message, pair))

warning(ev, message, pair) == Append(ev, LogLine("WARNING", message, pair))

error(ev, message, pair) == Append(ev, LogLine("ERROR", message, pair))

\* JSONLogger.__init__: the four lines a new logger starts with.
init_lines ==
    info(info(info(info(<<>>, "JSON Logger initialized", NoPair),
                   "Success log", NoPair), "Failure log", NoPair),
         "Debug log", NoPair)

\* What a write to the log directory can end in: on a faulty disk it may
\* fail before the file is touched or after it was truncated.
WriteOutcomes == IF log_disk = "faulty" THEN {"written", "refused", "cut"} ELSE {"written"}

\* JSONLogger._append_to_json_file: the file after the call.  The list is
\* read, extended and written back whole; any exception is caught, and
\* leaves the file as it was (the read or the open failed) or cut short (the
\* write failed after the file was truncated).
append_to_json_file(f, result) ==
    IF f.state = "ok"
    THEN {CASE w = "written" -> [f EXCEPT !.data = Append(@, result)]
            [] w = "refused" -> f
            [] w = "cut" -> CorruptLogFile : w \in WriteOutcomes}
    ELSE {f}

\* _append_to_json_file's except branch is taken: the file did not receive
\* the record.
append_failed(f, f2, result) ==
    f.state # "ok" \/ f2 # [f EXCEPT !.data = Append(@, result)]

\* The lines of log_success: the write's error line if it failed, then the
\* SUCCESS line (duration_ms is positive).
log_success_lines(ev, pair, failed) ==
    info(IF failed THEN error(ev, "Failed to write", NoPair) ELSE ev, "SUCCESS", pair)

\* The lines of log_failure: the write's error line if it failed, then the
\* FAILURE line, which is the empty message when there is no status code.
log_failure_lines(ev, pair, status_code, failed) ==
    LET e == IF failed THEN error(ev, "Failed to write", NoPair) ELSE ev
    IN IF status_code # NoStatus
       THEN warning(e, "FAILURE", pair)
       ELSE warning(e, "", NoPair)

\* The lines of close: save_summary's, then its own.
close_lines(ev) == info(info(ev, "Summary saved", NoPair), "JSON Logger closed", NoPair)

\* log_success's and log_failure's write to the session's file.
persist_success(ld, sid, result) ==
    {[ld EXCEPT ![sid].success_file = f] :
        f \in append_to_json_file(ld[sid].success_file, result)}

persist_failure(ld, sid, result) ==
    {[ld EXCEPT ![sid].failure_file = f] :
        f \in append_to_json_file(ld[sid].failure_file, result)}

\* JSONLogger.get_summary: the counts of the in-memory records.
get_summary(successes, failures) ==
    [total_attempts |-> Len(successes) + Len(failures),
     successes |-> Len(successes), failures |-> Len(failures)]

\* save_summary's key of a failure record: its error_type, or 'Unknown'.
breakdown_key(failure) ==
    IF failure.error_type = "" THEN "Unknown" ELSE failure.error_type

\* save_summary's error_breakdown: for each kind among the failure records,
\* the number of records of that kind.
error_breakdown_kinds_seen(failures) ==
    [kind \in {breakdown_key(failures[k]) : k \in 1..Len(failures)} |-> 1]

error_breakdown(failures) ==
    [kind \in {breakdown_key(failures[k]) : k \in 1..Len(failures)} |->
        Cardinality({k \in 1..Len(failures) : breakdown_key(failures[k]) = kind})]

\* JSONLogger.save_summary, when the write succeeds.
save_summary(ld, sid, successes, failures) ==
    LET summary == get_summary(successes, failures)
    IN [ld EXCEPT ![sid].summary_file =
           [state |-> "ok", total_attempts |-> summary.total_attempts,
            successes |-> summary.successes, failures |-> summary.failures,
            error_breakdown |-> error_breakdown(failures)]]

\* JSONLogger.save_summary, when it raises: the open failed (nothing
\* changed) or the write failed midway.
save_summary_raises(ld, sid) ==
    {CASE w = "refused" -> ld
       [] w = "cut" -> [ld EXCEPT ![sid].summary_file = CorruptSummary] :
       w \in WriteOutcomes \ {"written"}}

\* ------------------------------------------------------ DownloadOrchestrator

\* download_batch's default for size.
DefaultSize == 512

\* The sizes a batch may be asked for.
Sizes == {256, 512}

\* DownloadStats(total=n)
DownloadStats(n) == [total |-> n, successes |-> 0, failures |-> 0, skipped |-> 0]

\* reset_stats as it would be if only the total were set anew.
reset_stats_total_only(s, n) == [s EXCEPT !.total = n]

\* download_batch's first statement: self.stats = DownloadStats(total=len(...))
reset_stats(s, n) == DownloadStats(n)

\* should_skip as it would be if the existence test were dropped.
should_skip_never(fs, pair) == FALSE

\* download_pair's test "already exists"
should_skip(fs, pair) == skip_existing /\ file_exists(fs, pair[1], pair[2])

\* self.stats.skipped += 1
count_skipped(s) == [s EXCEPT !.skipped = @ + 1]

\* self.stats.successes += 1
count_success(s) == [s EXCEPT !.successes = @ + 1]

\* count_failure as it would be if the increment were forgotten.
count_failure_forgotten(s) == s

\* self.stats.failures += 1
count_failure(s) == [s EXCEPT !.failures = @ + 1]

\* download_pair's mapping of the final status code to the error kind
error_type_of(status_code) ==
    IF status_code = 404 THEN "NotFound"
    ELSE IF status_code # NoStatus /\ status_code >= 500 THEN "ServerError"
    ELSE "NetworkError"

\* logged_status as it would be if status_code were not handed on (as in
\* the save-error branch).
logged_status_dropped(status_code) == NoStatus

\* The status_code download_pair hands to log_failure on a failed fetch.
logged_status(status_code) == status_code

\* save_error_type as it would be if the save error were logged as a fetch
\* error.
save_error_type_network == "NetworkError"

\* error_type of the failure record written when save raises
save_error_type == "IOError"

\* save_error_caught as it would be without the try/except around save.
save_error_escapes == FALSE

\* download_pair wraps save in try/except Exception: the error is caught.
save_error_caught == TRUE

\* --------------------------------------------------------- BulkDownloader

\* The counters BulkDownloader.__init__ sets up.
BulkCounters == [successes |-> 0, failures |-> 0, skipped |-> 0, not_found |-> 0]

\* process_single's test "already exists" (there is no flag to turn it off)
bulk_should_skip(fs, pair) == file_exists(fs, pair[1], pair[2])

\* process_single's accounting of a failed fetch: 404 is counted apart.
bulk_count_failed_fetch(c, status_code) ==
    IF status_code = 404
    THEN [c EXCEPT !.not_found = @ + 1]
    ELSE [c EXCEPT !.failures = @ + 1]

\* bulk_note_failed_fetch as it would be if a 404 were listed as well.
bulk_note_failed_fetch_any(fp, pair, status_code) == Append(fp, pair)

\* process_single's listing of a failed fetch in failed_pairs: a 404 is not
\* listed.
bulk_note_failed_fetch(fp, pair, status_code) ==
    IF status_code = 404 THEN fp ELSE Append(fp, pair)

\* WindowOf as it would be if the whole list were gathered at once.
WindowOf_whole_list(i) == 0

\* The window (batch) of download_all a position falls into: range(0, total,
\* batch_size) slices emoji_pairs[i:i + batch_size].
WindowOf(i) == (i - 1) \div batch_size

\* --------------------------------------------------------------- run_test

\* The process has not exited.
NoExit == -1

\* The success rate main requires, in percent.
RequiredRate == 75

\* exit_status as it would be if any failure failed the run.
exit_status_no_failures(s) == IF s.failures = 0 THEN 0 ELSE 1

\* main's return value: 0 when (successes / total) * 100 >= 75.0, the rate
\* being 0 for an empty batch, and 1 otherwise.  The float comparison is
\* exact for these operands (75.0 is reached only at a ratio of 3/4, which
\* the division yields exactly), so it is computed on integers.
exit_status(s) ==
    IF s.total > 0 /\ s.successes * 100 >= RequiredRate * s.total THEN 0 ELSE 1

\* ------------------------------------------------------------------- Init

InputLists == UNION {[1..n -> Pairs] : n \in 0..MaxPairs}

NoTasks(n) == [i \in 1..n |-> NewTask]

\* A log directory without files.
EmptyLogDir == [sid \in SessionIds |-> NoSessionFiles]

\* The state after the construction of the orchestrator or bulk downloader,
\* whatever the state of the disk the logs go to.
Setup ==
    /\ driver \in Drivers
    /\ skip_existing \in (IF driver = "orch" THEN BOOLEAN ELSE {TRUE})
    /\ max_concurrent \in 1..MaxConcurrent
    /\ max_retries = (IF driver = "orch" THEN MaxRetries ELSE BulkMaxRetries)
    /\ emoji_pairs \in InputLists
    /\ batch_size \in (IF driver = "orch" THEN {1} ELSE 1..MaxPairs)
    /\ files \in [Paths -> {OldContent, NoFile}]
    /\ phase = "idle"
    /\ tasks = NoTasks(Len(emoji_pairs))
    /\ stats = DownloadStats(0)
    /\ counters = BulkCounters
    /\ log_successes = <<>>
    /\ log_failures = <<>>
    /\ failed_pairs = <<>>
    /\ permits = [c \in ClientIds |-> 0]
    /\ rerun = FALSE
    /\ prev = [succeeded |-> {}, files |-> files, session_id |-> 0,
               size |-> DefaultSize]
    /\ last_saved = [p \in Paths |-> NoFile]
    /\ session_id = 1
    /\ size = DefaultSize
    /\ log_dir = IF driver = "orch"
                 THEN JSONLogger(EmptyLogDir, session_id)
                 ELSE EmptyLogDir
    /\ log_disk \in {"ok", "faulty"}
    /\ entry \in (IF driver = "orch" /\ Len(emoji_pairs) = 1
                  THEN {"batch", "single"} ELSE {"batch"})
    /\ returned = "None"
    /\ events = IF driver = "orch" THEN init_lines ELSE <<>>
    /\ exit_code = NoExit

\* The batch sessions over a log directory that takes every write.
Init == Setup /\ log_disk = "ok" /\ entry = "batch"

\* ---------------------------------------------------------- client actions

\* download_image enters "async with semaphore": with a free permit it goes
\* on to the pacing delay, without one it waits.
Enter(i, t, sem) ==
    IF sem > 0
    THEN /\ tasks' = [tasks EXCEPT ![i] = [t EXCEPT !.pc = "delay"]]
         /\ permits' = [permits EXCEPT ![client_of(i)] = sem - 1]
    ELSE /\ tasks' = [tasks EXCEPT ![i] = [t EXCEPT !.pc = "waiting"]]
         /\ permits' = [permits EXCEPT ![client_of(i)] = sem]

\* A waiting download_image gets a permit that was released.
client_acquire(i) ==
    /\ phase = "running"
    /\ tasks[i].pc = "waiting"
    /\ permits[client_of(i)] > 0
    /\ permits' = [permits EXCEPT ![client_of(i)] = @ - 1]
    /\ tasks' = [tasks EXCEPT ![i].pc = "delay"]
    /\ UNCHANGED <<config, api, events, session, log_dir, ledger, skip_existing, files, phase, stats,
                   counters, log_successes, log_failures, failed_pairs>>

\* The delay (or backoff) is over and the GET is dispatched.  The tasks that
\* gather created all run to their first suspension before any timer fires.
client_send(i) ==
    /\ phase = "running"
    /\ tasks[i].pc = "delay"
    /\ \A j \in Positions : WindowOf(j) = WindowOf(i) => Started(j)
    /\ tasks' = [tasks EXCEPT ![i].pc = "inflight", ![i].fetched = TRUE]
    /\ UNCHANGED <<config, api, events, session, log_dir, ledger, skip_existing, files, phase, stats,
                   counters, log_successes, log_failures, failed_pairs,
                   permits>>

\* The response that ends the call: a retryable one only once the ceiling is
\* reached.
Final(i, resp) == ~Retryable(resp) \/ tasks[i].retries >= retry_ceiling

\* count_retry as it would be if the retries made were not counted.
count_retry_lost(n) == n

\* One more retry was made.
count_retry(n) == n + 1

\* A 5xx or a transport failure below the retry ceiling: back off and retry,
\* the permit still held.
client_retry(i) ==
    /\ phase = "running"
    /\ tasks[i].pc = "inflight"
    /\ \E resp \in Responses :
         /\ ~Final(i, resp)
         /\ tasks' = [tasks EXCEPT ![i].pc = "delay",
                                   ![i].retries = count_retry(@),
                                   ![i].status = resp.status]
    /\ UNCHANGED <<config, api, events, session, log_dir, ledger, skip_existing, files, phase, stats,
                   counters, log_successes, log_failures, failed_pairs,
                   permits>>

\* Release as it would be if the permit were kept when the call ends.
Release_forgotten(i) == permits' = permits

\* The semaphore is released as download_image returns.
Release(i) == permits' = [permits EXCEPT ![client_of(i)] = @ + 1]

\* --------------------------------------------- DownloadOrchestrator actions

\* download_batch up to its loop: the stats are reset.
download_batch_begin ==
    /\ driver = "orch"
    /\ entry = "batch"
    /\ phase = "idle"
    /\ phase' = "running"
    /\ stats' = reset_stats(stats, Len(emoji_pairs))
    /\ events' = info(events, "Starting batch download", NoPair)
    /\ UNCHANGED <<config, api, session, log_dir, ledger, skip_existing, files, tasks, counters,
                   log_successes, log_failures, failed_pairs, permits>>

\* download_pair up to its first suspension: the skip, or a new client and
\* the call of download_image.  The loop awaits each pair before the next.
\* download_pair's line for a pair it skips.
log_skip_silent(ev, pair) == ev

log_skip(ev, pair) == info(ev, "Skipped", pair)

download_pair_begin(i) ==
    /\ driver = "orch"
    /\ phase = "running"
    /\ tasks[i].pc = "PENDING"
    /\ \A j \in 1..(i - 1) : Terminal(j)
    /\ LET pair == emoji_pairs[i]
           t == tasks[i]
       IN IF should_skip(files, pair)
          THEN /\ tasks' = [tasks EXCEPT ![i] = [t EXCEPT !.pc = "SKIPPED"]]
               /\ stats' = count_skipped(stats)
               /\ events' = log_skip(events, pair)
               /\ UNCHANGED permits
          ELSE /\ Enter(i, t, semaphore_size)
               /\ UNCHANGED <<stats, events>>
    /\ UNCHANGED <<config, api, session, log_dir, ledger, skip_existing, files, phase, counters,
                   log_successes, log_failures, failed_pairs>>

\* download_pair from the return of download_image to its own return.
download_pair_end(i) ==
    /\ driver = "orch"
    /\ phase = "running"
    /\ tasks[i].pc = "inflight"
    /\ \E resp \in Responses :
         /\ Final(i, resp)
         /\ Release(i)
         /\ LET pair == emoji_pairs[i]
                o == Outcome(resp)
                t == [tasks[i] EXCEPT !.status = o.status_code, !.retries = 0]
            IN IF o.success /\ o.content # <<>>
               THEN \/ /\ files' = save(files, pair[1], pair[2], o.content)
                       /\ last_saved' = note_saved(last_saved, pair[1], pair[2], o.content)
                       /\ stats' = count_success(stats)
                       /\ log_successes' = log_success(log_successes, pair, o.status_code)
                       /\ log_dir' \in persist_success(log_dir, session_id,
                                                       Last(log_successes'))
                       /\ events' = log_success_lines(events, pair,
                                        append_failed(log_dir[session_id].success_file,
                                                      log_dir'[session_id].success_file,
                                                      Last(log_successes')))
                       /\ tasks' = [tasks EXCEPT ![i] = [t EXCEPT !.pc = "SUCCEEDED"]]
                       /\ UNCHANGED <<log_failures, phase>>
                    \/ /\ files' \in save_raises(files, pair[1], pair[2], o.content)
                       /\ last_saved' = note_touched(last_saved, pair[1], pair[2])
                       /\ IF save_error_caught
                          THEN /\ stats' = count_failure(stats)
                               /\ log_failures' = log_failure(log_failures, pair,
                                                              save_error_type, NoStatus)
                               /\ log_dir' \in persist_failure(log_dir, session_id,
                                                               Last(log_failures'))
                               /\ events' = log_failure_lines(events, pair, NoStatus,
                                                append_failed(log_dir[session_id].failure_file,
                                                              log_dir'[session_id].failure_file,
                                                              Last(log_failures')))
                               /\ tasks' = [tasks EXCEPT ![i] =
                                              [t EXCEPT !.pc = "FAILED",
                                                        !.error_type = save_error_type,
                                                        !.save_raised = TRUE]]
                               /\ UNCHANGED phase
                          ELSE /\ phase' = "aborted"
                               /\ tasks' = [tasks EXCEPT ![i] =
                                              [t EXCEPT !.pc = "raised",
                                                        !.save_raised = TRUE]]
                               /\ UNCHANGED <<stats, log_failures, log_dir, events>>
                       /\ UNCHANGED log_successes
               ELSE /\ stats' = count_failure(stats)
                    /\ log_failures' = log_failure(log_failures, pair,
                                                   error_type_of(o.status_code),
                                                   logged_status(o.status_code))
                    /\ log_dir' \in persist_failure(log_dir, session_id,
                                                    Last(log_failures'))
                    /\ events' = log_failure_lines(events, pair, logged_status(o.status_code),
                                     append_failed(log_dir[session_id].failure_file,
                                                   log_dir'[session_id].failure_file,
                                                   Last(log_failures')))
                    /\ tasks' = [tasks EXCEPT ![i] =
                                   [t EXCEPT !.pc = "FAILED",
                                             !.error_type = error_type_of(o.status_code)]]
                    /\ UNCHANGED <<files, last_saved, log_successes, phase>>
    /\ UNCHANGED <<config, api, session, rerun, prev, skip_existing, counters,
                   failed_pairs>>

\* download_batch after its loop: the summary is printed, logger.close()
\* saves the summary file, and the stats are returned.  save_summary is not
\* guarded: when it raises, the exception leaves close and download_batch.
download_batch_end ==
    /\ driver = "orch"
    /\ entry = "batch"
    /\ phase = "running"
    /\ \A i \in Positions : Terminal(i)
    /\ \/ /\ log_dir' = save_summary(log_dir, session_id, log_successes, log_failures)
          /\ events' = close_lines(events)
          /\ phase' = "returned"
       \/ /\ save_summary_raises(log_dir, session_id) # {}
          /\ log_dir' \in save_summary_raises(log_dir, session_id)
          /\ phase' = "close_raised"
          /\ UNCHANGED events
    /\ UNCHANGED <<config, api, session, ledger, skip_existing, files, tasks, stats,
                   counters, log_successes, log_failures, failed_pairs,
                   permits>>

\* download_pair_returns as it would be if a skip were reported as a failure.
download_pair_returns_skip_false(pc) == pc = "SUCCEEDED"

\* The success flag download_pair returns at each of its exits: True after
\* the skip and after the save, False after a save error or a failed fetch.
download_pair_returns(pc) == pc \in {"SKIPPED", "SUCCEEDED"}

\* download_single up to its await of download_pair: the stats are those the
\* instance has, they are not reset.
download_single_begin ==
    /\ driver = "orch"
    /\ entry = "single"
    /\ phase = "idle"
    /\ phase' = "running"
    /\ UNCHANGED <<config, api, events, session, log_dir, ledger, skip_existing, files,
                   tasks, stats, counters, log_successes, log_failures,
                   failed_pairs, permits>>

\* download_single after download_pair: the result line is printed,
\* logger.close() saves the summary file (unguarded, as in download_batch),
\* and the success flag of download_pair is returned.
download_single_end ==
    /\ driver = "orch"
    /\ entry = "single"
    /\ phase = "running"
    /\ \A i \in Positions : Terminal(i)
    /\ \/ /\ log_dir' = save_summary(log_dir, session_id, log_successes, log_failures)
          /\ events' = close_lines(events)
          /\ phase' = "returned"
          /\ returned' = IF download_pair_returns(tasks[1].pc) THEN "True" ELSE "False"
       \/ /\ save_summary_raises(log_dir, session_id) # {}
          /\ log_dir' \in save_summary_raises(log_dir, session_id)
          /\ phase' = "close_raised"
          /\ UNCHANGED <<returned, events>>
    /\ UNCHANGED <<config, entry, exit_code, session, ledger, skip_existing, files, tasks,
                   stats, counters, log_successes, log_failures, failed_pairs,
                   permits>>

\* --------------------------------------------------- BulkDownloader actions

\* download_all up to its loop: the one client of the run is opened.
download_all_begin ==
    /\ driver = "bulk"
    /\ phase = "idle"
    /\ phase' = "running"
    /\ permits' = [permits EXCEPT ![0] = semaphore_size]
    /\ UNCHANGED <<config, api, events, session, log_dir, ledger, skip_existing, files, tasks, stats,
                   counters, log_successes, log_failures, failed_pairs>>

\* process_single up to its first suspension.  A window's tasks start in
\* list order once every earlier window has been gathered.
process_single_begin(i) ==
    /\ driver = "bulk"
    /\ phase = "running"
    /\ tasks[i].pc = "PENDING"
    /\ \A j \in Positions : WindowOf(j) < WindowOf(i) => Terminal(j)
    /\ \A j \in 1..(i - 1) : Started(j)
    /\ LET pair == emoji_pairs[i]
           t == tasks[i]
       IN IF bulk_should_skip(files, pair)
          THEN /\ tasks' = [tasks EXCEPT ![i] = [t EXCEPT !.pc = "SKIPPED"]]
               /\ counters' = [counters EXCEPT !.skipped = @ + 1]
               /\ UNCHANGED permits
          ELSE /\ Enter(i, t, permits[client_of(i)])
               /\ UNCHANGED counters
    /\ UNCHANGED <<config, api, events, session, log_dir, ledger, skip_existing, files, phase, stats,
                   log_successes, log_failures, failed_pairs>>

\* process_single from the return of download_image to its own return.
process_single_end(i) ==
    /\ driver = "bulk"
    /\ phase = "running"
    /\ tasks[i].pc = "inflight"
    /\ \E resp \in Responses :
         /\ Final(i, resp)
         /\ Release(i)
         /\ LET pair == emoji_pairs[i]
                o == Outcome(resp)
                t == [tasks[i] EXCEPT !.status = o.status_code, !.retries = 0]
            IN IF o.success /\ o.content # <<>>
               THEN \/ /\ files' = save(files, pair[1], pair[2], o.content)
                       /\ last_saved' = note_saved(last_saved, pair[1], pair[2], o.content)
                       /\ counters' = [counters EXCEPT !.successes = @ + 1]
                       /\ tasks' = [tasks EXCEPT ![i] = [t EXCEPT !.pc = "SUCCEEDED"]]
                       /\ UNCHANGED failed_pairs
                    \/ /\ files' \in save_raises(files, pair[1], pair[2], o.content)
                       /\ last_saved' = note_touched(last_saved, pair[1], pair[2])
                       /\ counters' = [counters EXCEPT !.failures = @ + 1]
                       /\ failed_pairs' = Append(failed_pairs, pair)
                       /\ tasks' = [tasks EXCEPT ![i] =
                                      [t EXCEPT !.pc = "FAILED", !.save_raised = TRUE]]
               ELSE /\ counters' = bulk_count_failed_fetch(counters, o.status_code)
                    /\ failed_pairs' = bulk_note_failed_fetch(failed_pairs, pair,
                                                               o.status_code)
                    /\ tasks' = [tasks EXCEPT ![i] = [t EXCEPT !.pc = "FAILED"]]
                    /\ UNCHANGED <<files, last_saved>>
    /\ UNCHANGED <<config, api, events, session, log_dir, rerun, prev, skip_existing, phase, stats,
                   log_successes, log_failures>>

\* download_all after its loop: the client is closed, the summary printed.
download_all_end ==
    /\ driver = "bulk"
    /\ phase = "running"
    /\ \A i \in Positions : Terminal(i)
    /\ phase' = "returned"
    /\ UNCHANGED <<config, api, events, session, log_dir, ledger, skip_existing, files, tasks, stats,
                   counters, log_successes, log_failures, failed_pairs,
                   permits>>

\* The same list is run once more over the same output directory, by a new
\* orchestrator with skip_existing on and a log directory of its own,
\* constructed in the same second as the first or later, and at any size.
run_again ==
    /\ phase = "returned"
    /\ ~rerun
    /\ rerun' = TRUE
    /\ prev' = [succeeded |-> {i \in Positions : tasks[i].pc = "SUCCEEDED"},
                 files |-> files, session_id |-> session_id, size |-> size]
    /\ session_id' \in {sid \in SessionIds : sid >= session_id}
    /\ size' \in Sizes
    /\ log_dir' = JSONLogger(EmptyLogDir, session_id')
    /\ skip_existing' = TRUE
    /\ phase' = "idle"
    /\ tasks' = NoTasks(Len(emoji_pairs))
    /\ stats' = DownloadStats(0)
    /\ counters' = BulkCounters
    /\ log_successes' = <<>>
    /\ log_failures' = <<>>
    /\ failed_pairs' = <<>>
    /\ permits' = [c \in ClientIds |-> 0]
    /\ returned' = "None"
    /\ events' = IF driver = "orch" THEN init_lines ELSE <<>>
    /\ UNCHANGED <<config, entry, exit_code, last_saved, files, log_disk>>

\* ------------------------------------------------------------------- Next

Next ==
    \/ download_batch_begin
    \/ \E i \in Positions : download_pair_begin(i)
    \/ \E i \in Positions : download_pair_end(i)
    \/ download_batch_end
    \/ download_all_begin
    \/ \E i \in Positions : process_single_begin(i)
    \/ \E i \in Positions : process_single_end(i)
    \/ download_all_end
    \/ \E i \in Positions : client_acquire(i)
    \/ \E i \in Positions : client_send(i)
    \/ \E i \in Positions : client_retry(i)

Spec == Init /\ [][Next]_vars

\* The runs in which the event loop keeps running what is ready and every
\* request that was sent is answered or times out, over an output directory
\* that holds the image of one pair and not that of the other.
LiveInit ==
    /\ Init
    /\ files = [q \in Paths |-> IF q = PathOf(<<"a", "b">>) THEN OldContent ELSE NoFile]

LiveSpec == LiveInit /\ [][Next]_vars /\ WF_vars(Next)

\* ---------------------------------------------------------- the second run

RerunInit == Init /\ driver = "orch"

RerunNext ==
    \/ download_batch_begin
    \/ \E i \in Positions : download_pair_begin(i)
    \/ \E i \in Positions : download_pair_end(i)
    \/ download_batch_end
    \/ \E i \in Positions : client_send(i)
    \/ \E i \in Positions : client_retry(i)
    \/ run_again

RerunSpec == RerunInit /\ [][RerunNext]_vars

\* ------------------------------------------------------ one instance, twice
\* An orchestrator, a list of at most one pair, and a log directory whose
\* disk may be faulty; download_batch is called, and then called once more,
\* on the same instance or on a second one over the same directories.

\* download_batch is called again on the instance that has just returned:
\* the logger, the settings and the files are those of the first call.
batch_again ==
    /\ driver = "orch"
    /\ phase = "returned"
    /\ ~rerun
    /\ rerun' = TRUE
    /\ prev' = [succeeded |-> {i \in Positions : tasks[i].pc = "SUCCEEDED"},
                 files |-> files, session_id |-> prev.session_id, size |-> size]
    /\ phase' = "idle"
    /\ tasks' = NoTasks(Len(emoji_pairs))
    /\ permits' = [c \in ClientIds |-> 0]
    /\ entry' = "batch"
    /\ returned' = "None"
    /\ UNCHANGED <<config, session, log_dir, events, exit_code, skip_existing, files,
                   last_saved, stats, counters, log_successes, log_failures,
                   failed_pairs>>

\* A second orchestrator is constructed over the same output and log
\* directories, in the same second as the first or later; its logger starts
\* with empty lists and does not touch session files that are already there.
orchestrator_again ==
    /\ driver = "orch"
    /\ phase = "returned"
    /\ ~rerun
    /\ rerun' = TRUE
    /\ prev' = [succeeded |-> {i \in Positions : tasks[i].pc = "SUCCEEDED"},
                 files |-> files, session_id |-> session_id, size |-> size]
    /\ session_id' \in {sid \in SessionIds : sid >= session_id}
    /\ log_dir' = JSONLogger(log_dir, session_id')
    /\ phase' = "idle"
    /\ tasks' = NoTasks(Len(emoji_pairs))
    /\ stats' = DownloadStats(0)
    /\ log_successes' = <<>>
    /\ log_failures' = <<>>
    /\ permits' = [c \in ClientIds |-> 0]
    /\ returned' = "None"
    /\ events' = init_lines
    /\ UNCHANGED <<config, entry, exit_code, size, log_disk, skip_existing, files, last_saved,
                   counters, failed_pairs>>

InstanceInit ==
    Setup /\ driver = "orch" /\ Len(emoji_pairs) <= 1 /\ max_concurrent = 1

InstanceNext ==
    \/ download_batch_begin
    \/ \E i \in Positions : download_pair_begin(i)
    \/ \E i \in Positions : download_pair_end(i)
    \/ download_batch_end
    \/ \E i \in Positions : client_send(i)
    \/ \E i \in Positions : client_retry(i)
    \/ download_single_begin
    \/ download_single_end
    \/ batch_again
    \/ orchestrator_again

InstanceSpec == InstanceInit /\ [][InstanceNext]_vars

\* ------------------------------------------------- the storage manager alone
\* Any sequence of save and delete calls on one StorageManager.

\* The byte strings handed to save.
SaveInputs == Contents \cup {OldContent}

StorageInit == Init /\ driver = "orch" /\ emoji_pairs = <<>> /\ skip_existing

storage_save(pair, content) ==
    /\ \/ /\ files' = save(files, pair[1], pair[2], content)
          /\ last_saved' = note_saved(last_saved, pair[1], pair[2], content)
          /\ returned' = "Path"
       \/ /\ files' \in save_raises(files, pair[1], pair[2], content)
          /\ last_saved' = note_touched(last_saved, pair[1], pair[2])
          /\ returned' = "None"
    /\ UNCHANGED <<config, entry, exit_code, events, session, log_dir, rerun, prev, skip_existing, phase, tasks, stats,
                   counters, log_successes, log_failures, failed_pairs,
                   permits>>

storage_delete(pair) ==
    /\ files' = delete(files, pair[1], pair[2])
    /\ last_saved' = note_touched(last_saved, pair[1], pair[2])
    /\ returned' = IF delete_returns(files, pair[1], pair[2]) THEN "True" ELSE "False"
    /\ UNCHANGED <<config, entry, exit_code, events, session, log_dir, rerun, prev, skip_existing, phase, tasks, stats,
                   counters, log_successes, log_failures, failed_pairs,
                   permits>>

StorageNext ==
    \/ \E pair \in Pairs, content \in SaveInputs : storage_save(pair, content)
    \/ \E pair \in Pairs : storage_delete(pair)

StorageSpec == StorageInit /\ [][StorageNext]_vars

\* ------------------------------------------------------- run_test's verdict

\* The longest list whose stats are drawn.
MaxTotal == 12

\* The stats download_batch can return to run_test's main, which runs the
\* orchestrator with skip_existing off: every pair of a list of up to
\* MaxTotal pairs is counted as a success or as a failure.
ReturnedStats ==
    UNION {{[total |-> n, successes |-> k, failures |-> n - k, skipped |-> 0] :
              k \in 0..n} : n \in 0..MaxTotal}

\* main at the return of its download_batch call; of the run only the stats
\* returned are kept.
ExitInit ==
    /\ driver = "orch"
    /\ skip_existing = FALSE
    /\ max_concurrent = 1
    /\ max_retries = MaxRetries
    /\ emoji_pairs = <<>>
    /\ batch_size = 1
    /\ files = [q \in Paths |-> NoFile]
    /\ phase = "returned"
    /\ tasks = NoTasks(0)
    /\ stats \in ReturnedStats
    /\ counters = BulkCounters
    /\ log_successes = <<>>
    /\ log_failures = <<>>
    /\ failed_pairs = <<>>
    /\ permits = [c \in ClientIds |-> 0]
    /\ rerun = FALSE
    /\ prev = [succeeded |-> {}, files |-> files, session_id |-> 0,
               size |-> DefaultSize]
    /\ last_saved = [q \in Paths |-> NoFile]
    /\ session_id = 1
    /\ size = DefaultSize
    /\ log_dir = JSONLogger(EmptyLogDir, session_id)
    /\ log_disk = "ok"
    /\ entry = "batch"
    /\ returned = "None"
    /\ events = init_lines
    /\ exit_code = NoExit

\* main from the return of download_batch: the rate is computed and printed
\* and the exit status is handed to sys.exit.
main_end ==
    /\ phase = "returned"
    /\ exit_code = NoExit
    /\ exit_code' = exit_status(stats)
    /\ phase' = "exited"
    /\ UNCHANGED <<config, entry, returned, events, session, log_dir, ledger,
                   skip_existing, files, tasks, stats, counters, log_successes,
                   log_failures, failed_pairs, permits>>

ExitNext == main_end

ExitSpec == ExitInit /\ [][ExitNext]_vars

\* ================================================================ properties

CountOf(state) == Cardinality({i \in Positions : tasks[i].pc = state})

Processed == {i \in Positions : Terminal(i)}

\* Position i is taken up in this step (the existence test is made).
TakenUp(i) == tasks[i].pc = "PENDING" /\ tasks'[i].pc # "PENDING"

\* The fetch of position i returns in this step.
Ends(i) == tasks[i].pc = "inflight" /\ tasks'[i].pc \in {"SUCCEEDED", "FAILED"}

Running == phase \in {"running", "returned"}

\* ----------------------------------------------------------------------- C1

C1_SkipStep ==
    \A i \in Positions :
        ( /\ TakenUp(i)
          /\ skip_existing
          /\ file_exists(files, emoji_pairs[i][1], emoji_pairs[i][2]) )
        => /\ tasks'[i].pc = "SKIPPED"
           /\ ~tasks'[i].fetched
           /\ files' = files
           /\ IF driver = "orch"
              THEN stats' = [stats EXCEPT !.skipped = @ + 1] /\ counters' = counters
              ELSE counters' = [counters EXCEPT !.skipped = @ + 1] /\ stats' = stats

\* C1: a pair whose file exists when it is taken up, with skip-existing on
\* (download_pair) or always (process_single), goes straight to SKIPPED: no
\* request is ever issued for it, the skipped counter goes up by one and the
\* success and failure counters and the files stay as they are.
C1_SkipExisting ==
    /\ [](\A i \in Positions : tasks[i].pc = "SKIPPED" => ~tasks[i].fetched)
    /\ [][C1_SkipStep]_vars

\* An orchestrator batch in which one pair was skipped and another fetched.
C1_Witness ==
    /\ driver = "orch"
    /\ skip_existing
    /\ stats.skipped = 1
    /\ \E i, j \in Positions : tasks[i].pc = "SKIPPED" /\ tasks[j].fetched

\* ----------------------------------------------------------------------- C2

StatsSum == stats.successes + stats.failures + stats.skipped

C2_Counted ==
    (driver = "orch" /\ Running) =>
        /\ stats.skipped = CountOf("SKIPPED")
        /\ stats.successes = CountOf("SUCCEEDED")
        /\ stats.failures = CountOf("FAILED")
        /\ StatsSum = Cardinality(Processed)
        /\ stats.total = Len(emoji_pairs)
        /\ (phase = "returned" => StatsSum = stats.total)

C2_Step ==
    \A i \in Positions :
        /\ (driver = "orch" /\ ~Terminal(i) /\ tasks'[i].pc \in {"SKIPPED", "SUCCEEDED", "FAILED"})
           => /\ stats'.successes + stats'.failures + stats'.skipped = StatsSum + 1
              /\ stats'.successes >= stats.successes
              /\ stats'.failures >= stats.failures
              /\ stats'.skipped >= stats.skipped
        /\ (driver = "orch" /\ Terminal(i)) => tasks'[i] = tasks[i]

\* C2: in download_batch every pair leaves PENDING for one terminal state,
\* which it keeps, and the step that ends it raises exactly one of skipped,
\* successes, failures by one; so the three counters count the SKIPPED,
\* SUCCEEDED and FAILED pairs, their sum is the number of pairs processed so
\* far, and it is stats.total when download_batch returns.
C2_OneCounterPerPair == []C2_Counted /\ [][C2_Step]_vars

\* A batch that returned with two pairs counted in two different counters.
C2_Witness ==
    /\ driver = "orch"
    /\ phase = "returned"
    /\ stats.total = 2
    /\ stats.failures = 1
    /\ stats.successes + stats.skipped = 1

\* ----------------------------------------------------------------------- C3

FailedNot404 == {i \in Positions : tasks[i].pc = "FAILED" /\ tasks[i].status # 404}

\* C3: a pair whose fetch ended with a 404 is counted apart from the other
\* failures: the failures counter counts the failed pairs other than the 404s.
C3_NotFoundCountedApart ==
    Running =>
        (IF driver = "orch" THEN stats.failures ELSE counters.failures)
            = Cardinality(FailedNot404)

\* ----------------------------------------------------------------------- C4

\* C4: at no time are more fetches outstanding than the configured ceiling,
\* over all pairs of the run together.
C4_ConcurrencyCeiling == Cardinality(Outstanding) <= max_concurrent

\* The ceiling is reached while another pair of the window waits for a permit.
C4_Witness ==
    /\ driver = "bulk"
    /\ Cardinality(Outstanding) = max_concurrent
    /\ \E i \in Positions : tasks[i].pc = "waiting"

\* ----------------------------------------------------------------------- C5

C6_Step ==
    \A i \in Positions :
        /\ (driver = "orch" /\ ~tasks[i].save_raised /\ tasks'[i].save_raised)
           => /\ tasks'[i].pc = "FAILED"
              /\ tasks'[i].status = 200
              /\ stats' = [stats EXCEPT !.failures = @ + 1]
              /\ log_successes' = log_successes
              /\ Len(log_failures') = Len(log_failures) + 1
              /\ SubSeq(log_failures', 1, Len(log_failures)) = log_failures
              /\ Last(log_failures').error_type = "IOError"
              /\ Last(log_failures').pair = emoji_pairs[i]
        /\ (driver = "orch" /\ Ends(i) /\ tasks'[i].pc = "FAILED" /\ ~tasks'[i].save_raised)
           => Last(log_failures').error_type # "IOError"

\* C6: when the fetch succeeded and save raises, the pair ends FAILED, the
\* failures counter (not successes) goes up by one, no success record is
\* written and exactly one failure record is appended, of kind IOError; a
\* failed fetch is never recorded with that kind.
C6_SaveErrorIsIOError == [][C6_Step]_vars

\* A pair whose image was fetched (200) and whose save raised.
C6_Witness ==
    /\ driver = "orch"
    /\ \E i \in Positions :
          /\ tasks[i].pc = "FAILED" /\ tasks[i].save_raised /\ tasks[i].status = 200
          /\ \E k \in 1..Len(log_failures) :
                /\ log_failures[k].error_type = "IOError"
                /\ log_failures[k].pair = emoji_pairs[i]

\* ----------------------------------------------------------------------- C7

C7_Stands ==
    \A pair \in Pairs :
        last_saved[PathOf(pair)] # NoFile =>
            /\ file_exists(files, pair[1], pair[2])
            /\ get_file_size(files, pair[1], pair[2]) = Len(last_saved[PathOf(pair)])

\* A save returns in this step: the file holds the bytes just handed over,
\* whatever was there before, and no other file changes.
C7_SaveStep ==
    \A pair \in Pairs :
        ( /\ last_saved'[PathOf(pair)] # NoFile
          /\ last_saved'[PathOf(pair)] # last_saved[PathOf(pair)] )
        => /\ files'[PathOf(pair)] = last_saved'[PathOf(pair)]
           /\ \A q \in Paths \ {PathOf(pair)} : files'[q] = files[q]

\* C7: after save(pair, bytes) returned, and until the next save or delete
\* of that pair, exists(pair) is true and fileSize(pair) is len(bytes); a
\* save over an existing file overwrites it, so the size is that of the
\* latest bytes.
C7_SaveThenExists == []C7_Stands /\ [][C7_SaveStep]_vars

\* One pair's file was overwritten by two bytes, the other's save stands
\* with one byte.
C7_Witness ==
    /\ last_saved[PathOf(<<"a", "b">>)] = <<2, 3>>
    /\ get_file_size(files, "a", "b") = 2
    /\ last_saved[PathOf(<<"b", "a">>)] = <<1>>
    /\ prev.files[PathOf(<<"a", "b">>)] = OldContent

\* ----------------------------------------------------------------------- C8

C8_Second ==
    rerun =>
        /\ skip_existing
        /\ \A i \in prev.succeeded :
              /\ tasks[i].pc \in {"PENDING", "SKIPPED"}
              /\ ~tasks[i].fetched
              /\ files[PathOf(emoji_pairs[i])] = prev.files[PathOf(emoji_pairs[i])]
              /\ (phase = "returned" => tasks[i].pc = "SKIPPED")
        /\ \A q \in Paths : prev.files[q] # NoFile => files[q] # NoFile

\* C8: when the same batch is run again with skip-existing on, every pair
\* that ended SUCCEEDED in the first run ends SKIPPED in the second, without
\* a request and with its file as the first run left it, and every file the
\* first run left is still there.
C8_RerunSkips == C8_Second

\* The second run returned: one pair of the first run's successes was
\* skipped and another pair, which had failed, was fetched again.
C8_Witness ==
    /\ rerun
    /\ phase = "returned"
    /\ \E i \in prev.succeeded : tasks[i].pc = "SKIPPED"
    /\ \E j \in Positions : j \notin prev.succeeded /\ tasks[j].fetched

\* ----------------------------------------------------------------------- C9

RetryableStatus(status_code) == status_code = NoStatus \/ status_code >= 500

C9_Step ==
    \A i \in Positions :
        (Ends(i) /\ tasks'[i].pc = "FAILED" /\ ~tasks'[i].save_raised
            /\ RetryableStatus(tasks'[i].status))
        => /\ tasks[i].retries = retry_ceiling
           /\ driver = "orch" =>
                 /\ Len(log_failures') = Len(log_failures) + 1
                 /\ Last(log_failures').pair = emoji_pairs[i]
                 /\ Last(log_failures').status_code = tasks'[i].status

\* C9: a fetch that keeps getting 5xx or transport failures is retried until
\* the retry ceiling is reached and never beyond it; only then does the pair
\* end FAILED, and its failure record carries the status code of the last
\* response.
C9_RetriesThenLastStatus ==
    /\ [](\A i \in Positions : tasks[i].retries <= retry_ceiling)
    /\ [][C9_Step]_vars

\* A pair failed on a 503 after its retries, and the record says 503.
C9_Witness ==
    /\ driver = "orch"
    /\ retry_ceiling >= 1
    /\ \E i \in Positions :
          /\ tasks[i].pc = "FAILED" /\ tasks[i].status = 503
          /\ \E k \in 1..Len(log_failures) :
                /\ log_failures[k].pair = emoji_pairs[i]
                /\ log_failures[k].status_code = 503

\* ---------------------------------------------------------------------- C10

ClientErrorStatus(status_code) == status_code >= 400 /\ status_code < 500

\* C10 as stated: a fetch that gets a 404 or another 4xx has issued exactly
\* one request (no retry was made before the response that ends it).
C10_ExactlyOneRequest ==
    [][\A i \in Positions :
          (Ends(i) /\ ClientErrorStatus(tasks'[i].status)) => tasks[i].retries = 0]_vars

C10_Step ==
    \A i \in Positions :
        ( /\ tasks[i].pc = "inflight"
          /\ tasks'[i].pc # "inflight"
          /\ ClientErrorStatus(tasks'[i].status) )
        => /\ tasks'[i].pc = "FAILED"
           /\ permits'[client_of(i)] = permits[client_of(i)] + 1

\* C10 (amended): a 404 or another 4xx response ends the fetch: no request
\* follows it, whatever the retry ceiling, and the pair is FAILED; a pair
\* whose status is 4xx is never again waiting, delayed or in flight.
C10_NoRetryAfterClientError ==
    /\ [](\A i \in Positions : ClientErrorStatus(tasks[i].status) => tasks[i].pc = "FAILED")
    /\ [][C10_Step]_vars

\* A pair failed on a 404 under a retry ceiling that would have allowed
\* another attempt.
C10_Witness ==
    /\ retry_ceiling >= 1
    /\ \E i \in Positions : tasks[i].pc = "FAILED" /\ tasks[i].status = 404

\* ---------------------------------------------------------------------- C11

\* The error kind the taxonomy gives to the final outcome of a failed fetch.
KindOfOutcome(status_code) ==
    IF status_code = NoStatus THEN "NetworkError"
    ELSE IF status_code = 404 THEN "NotFound"
    ELSE IF status_code >= 500 THEN "ServerError"
    ELSE "ClientError"

\* C11: the error kind of a failure record of a failed fetch follows from the
\* final outcome: 404 gives NotFound, any other 4xx ClientError, 5xx
\* ServerError, and no status at all NetworkError.
C11_ErrorKindByOutcome ==
    \A k \in 1..Len(log_failures) :
        LET r == log_failures[k]
        IN (r.error_type # "IOError"
              /\ (r.status_code = NoStatus \/ r.status_code >= 400))
           => r.error_type = KindOfOutcome(r.status_code)

\* ---------------------------------------------------------------------- C12

\* C12: whenever download_batch returns, on the first call and on any later
\* call on the same instance, the logger holds one record per pair of that
\* call that was not skipped: as many success records as stats.successes and
\* as many failure records as stats.failures.
C12_OneRecordPerPair ==
    (driver = "orch" /\ phase = "returned") =>
        /\ Len(log_successes) = stats.successes
        /\ Len(log_failures) = stats.failures

\* ---------------------------------------------------------------------- C13

\* C13: a failure to write a log file or the summary never aborts the run:
\* the exception does not leave close, and download_batch returns its stats.
C13_LogFailureNeverAborts == phase # "close_raised"

\* ---------------------------------------------------------------------- C14

\* seq2 is seq1 with exactly one element added at the end.
OneAppended(seq1, seq2) ==
    Len(seq2) = Len(seq1) + 1 /\ SubSeq(seq2, 1, Len(seq1)) = seq1

C14_Step ==
    /\ (rerun' = rerun) =>
          \/ log_successes' = log_successes /\ log_failures' = log_failures
          \/ OneAppended(log_successes, log_successes') /\ log_failures' = log_failures
          \/ OneAppended(log_failures, log_failures') /\ log_successes' = log_successes
    /\ \A sid \in SessionIds :
          LET sf == log_dir[sid].success_file
              ff == log_dir[sid].failure_file
              sf2 == log_dir'[sid].success_file
              ff2 == log_dir'[sid].failure_file
          IN /\ sf2.data = sf.data \/ OneAppended(sf.data, sf2.data)
             /\ ff2.data = ff.data \/ OneAppended(ff.data, ff2.data)
             /\ (sid = session_id /\ rerun' = rerun) =>
                   /\ OneAppended(log_successes, log_successes') =>
                         /\ OneAppended(sf.data, sf2.data)
                         /\ Last(sf2.data) = Last(log_successes')
                         /\ ff2 = ff
                   /\ OneAppended(log_failures, log_failures') =>
                         /\ OneAppended(ff.data, ff2.data)
                         /\ Last(ff2.data) = Last(log_failures')
                         /\ sf2 = sf

\* C14: the success and failure logs are append-only, in memory and on disk:
\* a log_success (log_failure) call adds exactly one record at the end of the
\* success (failure) list and of the session's success (failure) file, leaves
\* the other list and file as they are, and no step changes or removes a
\* record that is already there.
C14_AppendOnly == [][C14_Step]_vars

\* ---------------------------------------------------------------------- C15

\* C15: two loggers constructed over the same log directory never have the
\* same session id, so the files of a session hold the records of its own
\* logger only.
C15_SessionIdUnique ==
    /\ session_id # prev.session_id
    /\ (rerun /\ prev.session_id # 0) =>
          /\ \A k \in 1..Len(log_dir[session_id].success_file.data) :
                \E m \in 1..Len(log_successes) :
                   log_successes[m] = log_dir[session_id].success_file.data[k]
          /\ \A k \in 1..Len(log_dir[session_id].failure_file.data) :
                \E m \in 1..Len(log_failures) :
                   log_failures[m] = log_dir[session_id].failure_file.data[k]

\* ---------------------------------------------------------------------- C16

\* The fetches in progress on a client: download_image calls that hold one
\* of its permits (pacing delay, request outstanding, or backoff).
Holders(c) == {i \in Positions : client_of(i) = c /\ HoldsPermit(i)}

\* C16: a fetch holds a permit from before its first dispatch until it ends,
\* whatever its outcome, and gives it back then: the free permits and the
\* fetches in progress always add up to the ceiling, so with no fetch in
\* progress all permits are free, and a pair that waits for a permit can take
\* one as soon as one is free.
C16_PermitsConserved ==
    /\ \A i \in Positions : tasks[i].pc = "inflight" => i \in Holders(client_of(i))
    /\ (driver = "bulk" /\ Running) =>
          /\ permits[0] >= 0
          /\ permits[0] + Cardinality(Holders(0)) = max_concurrent
          /\ (Holders(0) = {} => permits[0] = max_concurrent)
          /\ \A i \in Positions :
                (tasks[i].pc = "waiting" /\ permits[0] > 0) => ENABLED client_acquire(i)
          /\ \A i \in Positions :
                tasks[i].pc = "waiting" => (permits[0] > 0 \/ Holders(0) # {})
    /\ driver = "orch" =>
          \A i \in Positions :
             /\ HoldsPermit(i) => permits[i] = max_concurrent - 1
             /\ tasks[i].pc \in {"SUCCEEDED", "FAILED"} => permits[i] = max_concurrent

\* Under a ceiling of one, the first pair of a window failed and gave its
\* permit back, and the second pair, which had to wait for it, is in flight.
C16_Witness ==
    /\ driver = "bulk"
    /\ max_concurrent = 1
    /\ \E i, j \in Positions :
          /\ i # j
          /\ WindowOf(i) = WindowOf(j)
          /\ tasks[i].pc = "FAILED"
          /\ tasks[j].pc = "inflight"

\* ---------------------------------------------------------------------- C17

\* C17: the path of a pair depends on the requested size, so a file that was
\* downloaded at one size never makes a request for the same pair at another
\* size be skipped.
C17_SizeInPath ==
    (rerun /\ size # prev.size) =>
        \A i \in prev.succeeded : tasks[i].pc # "SKIPPED"

\* ---------------------------------------------------------------------- C18

GlyphPairs == Glyphs \X Glyphs

\* The pairs whose file is not the same after this step.
Touched == {p \in Pairs : files'[PathOf(p)] # files[PathOf(p)]}

\* C18: under format codepoint two different ordered pairs, (A,B) and (B,A)
\* among them, never resolve to the same path, so a save or delete of one
\* pair leaves exists and fileSize of every other pair as they were.
C18_PathInjective ==
    /\ [](\A p, q \in GlyphPairs :
             p # q => generate_full_path(p[1], p[2]) # generate_full_path(q[1], q[2]))
    /\ [][Cardinality(Touched) <= 1
          /\ \A p \in Pairs \ Touched :
                /\ file_exists(files', p[1], p[2]) = file_exists(files, p[1], p[2])
                /\ get_file_size(files', p[1], p[2]) = get_file_size(files, p[1], p[2])]_vars

\* (a,b) was saved while the older file of (b,a) is as it was.
C18_Witness ==
    /\ last_saved[PathOf(<<"a", "b">>)] = <<1>>
    /\ files[PathOf(<<"a", "b">>)] = <<1>>
    /\ files[PathOf(<<"b", "a">>)] = OldContent
    /\ last_saved[PathOf(<<"b", "a">>)] = NoFile

\* ---------------------------------------------------------------------- C19

\* C19: within one run no two requests are outstanding for the identical
\* pair at the same time, also when the list holds the pair twice.
C19_SingleWriter ==
    \A i, j \in Positions :
        (i # j /\ emoji_pairs[i] = emoji_pairs[j]) =>
            ~(tasks[i].pc = "inflight" /\ tasks[j].pc = "inflight")

\* ---------------------------------------------------------------------- C20

\* The window a position belongs to, counted from the list itself.
WindowNo(i) == (i - 1) \div batch_size

C20_Step ==
    \A i \in Positions :
        TakenUp(i) =>
            \A j \in Positions : WindowNo(j) < WindowNo(i) => Terminal(j)

PositionsAt(q) == {i \in Positions : PathOf(emoji_pairs[i]) = q}

\* C21: when a run has returned, a file is at a path exactly when it was
\* there before the run or a pair of that path ended SUCCEEDED, and a path
\* whose pairs all ended FAILED or SKIPPED holds what it held before.
C21_FileIffSucceeded ==
    (phase = "returned" /\ ~rerun) =>
        \A q \in Paths :
            /\ files[q] # NoFile <=>
                  \/ prev.files[q] # NoFile
                  \/ \E i \in PositionsAt(q) : tasks[i].pc = "SUCCEEDED"
            /\ (\A i \in PositionsAt(q) : tasks[i].pc \in {"FAILED", "SKIPPED"})
                  => files[q] = prev.files[q]

\* ---------------------------------------------------------------------- C22

C22_Step ==
    (driver = "orch" /\ entry' = "batch" /\ phase = "idle" /\ phase' = "running") =>
        stats' = [total |-> Len(emoji_pairs), successes |-> 0, failures |-> 0,
                  skipped |-> 0]

\* C22: download_batch starts from fresh stats, on a new instance, on an
\* instance that has run a batch before and on one that has served a
\* download_single call: successes, failures and skipped start at 0 and total
\* is the length of the list, so that the stats count the pairs of this
\* batch only, while it runs and when it returns.
C22_StatsReset ==
    /\ [][C22_Step]_vars
    /\ []((driver = "orch" /\ entry = "batch" /\ Running) =>
             /\ stats.total = Len(emoji_pairs)
             /\ stats.skipped = CountOf("SKIPPED")
             /\ stats.successes = CountOf("SUCCEEDED")
             /\ stats.failures = CountOf("FAILED"))

\* The second call on an instance returned: the pair that the first call
\* downloaded was skipped, and the stats show the skip and no success.
C22_Witness ==
    /\ rerun
    /\ prev.session_id = 0
    /\ entry = "batch"
    /\ phase = "returned"
    /\ prev.succeeded = {1}
    /\ stats = [total |-> 1, successes |-> 0, failures |-> 0, skipped |-> 1]

\* ---------------------------------------------------------------------- C23

\* The lines of the logger with the given message.
LinesOf(message) == {k \in 1..Len(events) : events[k].message = message}

C23_Step ==
    \A i \in Positions :
        (driver = "orch" /\ tasks[i].pc = "PENDING" /\ tasks'[i].pc = "SKIPPED") =>
            /\ events' = Append(events, [level |-> "INFO", message |-> "Skipped",
                                         pair |-> emoji_pairs[i]])
            /\ log_successes' = log_successes
            /\ log_failures' = log_failures
            /\ log_dir' = log_dir
            /\ files' = files

\* C23: in the orchestrator a pair that is skipped emits exactly one
\* "Skipped" line for that pair through the logger, while the step appends
\* nothing to the success and failure records (in memory or on disk) and
\* leaves the storage as it was; so there are as many "Skipped" lines as
\* skipped pairs.
C23_SkipLogged ==
    /\ [][C23_Step]_vars
    /\ [](driver = "orch" => Cardinality(LinesOf("Skipped")) = CountOf("SKIPPED"))

C23_Witness ==
    /\ driver = "orch"
    /\ phase = "returned"
    /\ CountOf("SKIPPED") = 1
    /\ \E k \in LinesOf("Skipped") : events[k].pair = <<"b", "a">>
    /\ log_successes = <<>>

\* ---------------------------------------------------------------------- C24

\* The error kinds a failure record can carry, and the fallback key.
BreakdownKinds == {"NotFound", "ServerError", "NetworkError", "IOError", "Unknown"}

\* The failure records of the given kind.
FailuresOf(kind) ==
    {k \in 1..Len(log_failures) :
        (IF log_failures[k].error_type = "" THEN "Unknown"
         ELSE log_failures[k].error_type) = kind}

RECURSIVE SumOver(_, _)
SumOver(f, S) ==
    IF S = {} THEN 0
    ELSE LET x == CHOOSE y \in S : TRUE IN f[x] + SumOver(f, S \ {x})

\* C24: a summary taken at any time has total_attempts = successes +
\* failures, with successes and failures the lengths of the two record
\* sequences; and the summary file close() has written when the orchestrator
\* returns holds these counts and an error breakdown with, for each error
\* kind, the number of failure records of that kind, whose values sum to the
\* failure count.
C24_SummaryConsistent ==
    /\ LET summary == get_summary(log_successes, log_failures)
       IN /\ summary.total_attempts = summary.successes + summary.failures
          /\ summary.successes = Len(log_successes)
          /\ summary.failures = Len(log_failures)
    /\ (driver = "orch" /\ phase = "returned") =>
          LET written == log_dir[session_id].summary_file
          IN /\ written.state = "ok"
             /\ written.total_attempts = written.successes + written.failures
             /\ written.successes = Len(log_successes)
             /\ written.failures = Len(log_failures)
             /\ DOMAIN written.error_breakdown \subseteq BreakdownKinds
             /\ \A kind \in BreakdownKinds :
                   IF FailuresOf(kind) = {}
                   THEN kind \notin DOMAIN written.error_breakdown
                   ELSE /\ kind \in DOMAIN written.error_breakdown
                        /\ written.error_breakdown[kind] = Cardinality(FailuresOf(kind))
             /\ SumOver(written.error_breakdown, DOMAIN written.error_breakdown)
                   = written.failures

C24_Witness ==
    /\ driver = "orch"
    /\ phase = "returned"
    /\ Len(log_failures) = 2
    /\ DOMAIN log_dir[session_id].summary_file.error_breakdown = {"NotFound"}
    /\ log_dir[session_id].summary_file.error_breakdown["NotFound"] = 2

\* ---------------------------------------------------------------------- C25

\* The fetch of position i has returned an image (download_image reported
\* success with content), whatever became of the save.
FetchSucceeded(t) == t.pc = "SUCCEEDED" \/ t.save_raised

C25_Step ==
    \A i \in Positions :
        (driver = "orch" /\ ~skip_existing /\ tasks[i].pc = "inflight"
            /\ tasks'[i].pc \in {"SUCCEEDED", "FAILED"}) =>
            IF FetchSucceeded(tasks'[i])
            THEN files'[PathOf(emoji_pairs[i])] \in Bodies
            ELSE files' = files

\* C25: in an orchestrator run with skip_existing disabled no pair is
\* skipped or counted as skipped, every pair of a returned batch was fetched,
\* and the step that ends a pair leaves at the pair's path the fetched image
\* if the fetch succeeded and leaves all files as they were if it failed.
C25_NoSkipOverwrites ==
    /\ [][C25_Step]_vars
    /\ []((driver = "orch" /\ ~skip_existing) =>
            /\ stats.skipped = 0
            /\ CountOf("SKIPPED") = 0
            /\ (phase = "returned" => \A i \in Positions : tasks[i].fetched))

\* ---------------------------------------------------------------------- C26

\* What delete of the pair does to the file system fs with return value r.
DeleteContract(fs, fs2, r, pair) ==
    /\ r <=> file_exists(fs, pair[1], pair[2])
    /\ ~file_exists(fs2, pair[1], pair[2])
    /\ get_file_size(fs2, pair[1], pair[2]) = -1
    /\ \A q \in Paths : q # PathOf(pair) => fs2[q] = fs[q]
    /\ ~file_exists(fs, pair[1], pair[2]) => (fs2 = fs /\ ~r)

C26_Step ==
    returned' \in {"True", "False"} =>
        \E pair \in Pairs : DeleteContract(files, files', returned' = "True", pair)

\* C26: in every state of the storage, delete of any pair returns true
\* exactly when the pair's file exists, leaves the pair without a file and
\* without a file size, leaves every other path as it was, and changes
\* nothing and returns false when there was no file; and every delete call
\* made is such a step for some pair.
C26_Delete ==
    /\ [][C26_Step]_vars
    /\ [](\A pair \in Pairs :
            DeleteContract(files, delete(files, pair[1], pair[2]),
                           delete_returns(files, pair[1], pair[2]), pair))

C26_Witness ==
    /\ returned = "True"
    /\ ~file_exists(files, "a", "b")
    /\ file_exists(files, "b", "a")
    /\ last_saved[PathOf(<<"b", "a">>)] = <<2, 3>>

\* ---------------------------------------------------------------------- C27

\* C27: a download_single call has a return value exactly when it has
\* returned; the value is True exactly when its pair ended SKIPPED or
\* SUCCEEDED and False exactly when it ended FAILED; the pair was handled
\* once (one counter raised, one record or one "Skipped" line), and the
\* summary file of the session was written, with the counts of the records,
\* when the call returns.
C27_SingleReturns ==
    (driver = "orch" /\ entry = "single") =>
        /\ returned \in {"True", "False"} <=> phase = "returned"
        /\ phase = "returned" =>
              /\ returned = "True" <=> tasks[1].pc \in {"SKIPPED", "SUCCEEDED"}
              /\ returned = "False" <=> tasks[1].pc = "FAILED"
              /\ stats.successes + stats.failures + stats.skipped = 1
              /\ Len(log_successes) + Len(log_failures)
                    + Cardinality(LinesOf("Skipped")) = 1
              /\ log_dir[session_id].summary_file.state = "ok"
              /\ log_dir[session_id].summary_file.successes = Len(log_successes)
              /\ log_dir[session_id].summary_file.failures = Len(log_failures)
              /\ Last(events).message = "JSON Logger closed"

\* A download_single call of a pair whose file exists has returned True
\* after skipping it.
C27_Witness ==
    /\ driver = "orch"
    /\ entry = "single"
    /\ phase = "returned"
    /\ returned = "True"
    /\ tasks[1].pc = "SKIPPED"

\* ---------------------------------------------------------------------- C28

\* The pairs BulkDownloader has accounted for.
BulkSum == counters.successes + counters.failures + counters.not_found + counters.skipped

\* Within a download_all run a pair that was processed is not processed
\* again, and a step accounts for exactly the pairs it finishes.
C28_Step ==
    (driver = "bulk" /\ rerun' = rerun) =>
        /\ \A i \in Positions : Terminal(i) => tasks'[i] = tasks[i]
        /\ BulkSum' - BulkSum =
              Cardinality({i \in Positions : ~Terminal(i) /\ tasks'[i].pc \in {"SKIPPED", "SUCCEEDED", "FAILED"}})

\* C28: in download_all every pair of the input is processed exactly once,
\* whatever the window length: the four counters always sum to the number of
\* pairs processed so far, no processed pair is processed again, on
\* completion every pair is processed and the counters sum to the length of
\* the input, and failed_pairs is always as long as the failures counter.
C28_BulkExactlyOnce ==
    /\ [][C28_Step]_vars
    /\ [](driver = "bulk" =>
            /\ Len(failed_pairs) = counters.failures
            /\ BulkSum = Cardinality({i \in Positions : Terminal(i)})
            /\ phase = "returned" =>
                  /\ \A i \in Positions : Terminal(i)
                  /\ BulkSum = Len(emoji_pairs))

\* A download_all over two windows of one pair has completed, with one pair
\* not found and the other failed and listed.
C28_Witness ==
    /\ driver = "bulk"
    /\ ~rerun
    /\ phase = "returned"
    /\ batch_size = 1
    /\ Len(emoji_pairs) = 2
    /\ counters = [successes |-> 0, failures |-> 1, skipped |-> 0, not_found |-> 1]
    /\ Len(failed_pairs) = 1

\* ---------------------------------------------------------------------- C29

\* The run is over: every pair is in a terminal state and the call has
\* returned; for the orchestrator the summary file is written and the stats
\* returned account for every pair.
RunCompleted ==
    /\ phase = "returned"
    /\ \A i \in Positions : Terminal(i)
    /\ driver = "orch" =>
          /\ log_dir[session_id].summary_file.state = "ok"
          /\ stats.total = Len(emoji_pairs)
          /\ stats.successes + stats.failures + stats.skipped = stats.total

C30_ExitByThreshold ==
    /\ exit_code = NoExit <=> phase # "exited"
    /\ phase = "exited" =>
          /\ exit_code \in {0, 1}
          /\ exit_code = 0 <=> (stats.total > 0 /\ 4 * stats.successes >= 3 * stats.total)
          /\ stats.total = 0 => exit_code = 1

\* A run exited with status 0 although a quarter of its pairs failed.
C30_Witness ==
    /\ phase = "exited"
    /\ exit_code = 0
    /\ stats.total = 4
    /\ stats.failures = 1

====
